---------------------------- MODULE Spec2Model ----------------------------
(***************************************************************************)
(* Model of vault-vars-generator: the configuration loader and validator   *)
(* (package config), the branch resolver (package validate) and the fetch  *)
(* run of the command (CLI.Run).                                           *)
(*                                                                         *)
(* A Go string is modelled as a sequence of one-character strings, so that *)
(* strings.TrimSpace, strings.HasPrefix and strings.TrimPrefix are         *)
(* computed on the characters, as the code computes them.                  *)
(***************************************************************************)
EXTENDS Integers, Sequences, FiniteSets, TLC

VARIABLES
    cfg,          \* the config.File: the parsed document, normalised by Load
    cliBranch,    \* cli.BranchName, the --branch flag
    envBranch,    \* the value of the first branch environment variable that is set
    validateOnly, \* cli.Validate
    pc,           \* position of CLI.Run: load, loaded, fetch, done, error
    issues,       \* ValidationError.Issues of the last Validate
    idx,          \* position of the fetch loop in cfg (1-based)
    resolved,     \* results of the TargetForBranch calls made so far, in call order
    fetched,      \* the fetchPassword calls made so far, in call order
    results,      \* the results slice of CLI.Run
    output,       \* the output document: NotWritten, or the list written
    err,          \* the error CLI.Run returned (kind "none" while it has not)
    logged        \* the "skips Vault"/"skipping secret" log lines: secret names

vars == <<cfg, cliBranch, envBranch, validateOnly, pc, issues, idx, resolved,
          fetched, results, output, err, logged>>

---------------------------------------------------------------------------
(* Bounds *)

\* The largest document: the number of secrets plus the number of overrides.
MaxDocSize == 3

---------------------------------------------------------------------------
(* Strings *)

EmptyStr == <<>>
Sp == <<" ">>
RefsHeads == <<"r","e","f","s","/","h","e","a","d","s","/">>
Origin == <<"o","r","i","g","i","n","/">>

IsSpace(c) == c \in {" ", "\t", "\n"}

RECURSIVE TrimLeft(_)
TrimLeft(s) ==
    IF s = <<>> THEN s
    ELSE IF IsSpace(Head(s)) THEN TrimLeft(Tail(s)) ELSE s

RECURSIVE TrimRight(_)
TrimRight(s) ==
    IF s = <<>> THEN s
    ELSE IF IsSpace(s[Len(s)]) THEN TrimRight(SubSeq(s, 1, Len(s) - 1)) ELSE s

TrimSpace(s) == TrimRight(TrimLeft(s))

HasPrefix(s, p) == Len(s) >= Len(p) /\ SubSeq(s, 1, Len(p)) = p

TrimPrefix(s, p) == IF HasPrefix(s, p) THEN SubSeq(s, Len(p) + 1, Len(s)) ELSE s

---------------------------------------------------------------------------
(* Data model: config.Target, config.BranchOverride, config.Secret *)

Target(a, n, alias) == [AccountID |-> a, Namespace |-> n, NamespaceAlias |-> alias]

EmptyTarget == Target(EmptyStr, EmptyStr, EmptyStr)

\* *bool: "nil", "true" or "false"
Override(name, vault, ve) == [Name |-> name, Vault |-> vault, VaultEnabled |-> ve]

Secret(name, default, overrides) ==
    [Name |-> name, Default |-> default, BranchOverrides |-> overrides]

\* Target.Normalize
NormalizeTarget(t) ==
    IF t.Namespace = EmptyStr THEN [t EXCEPT !.Namespace = t.NamespaceAlias] ELSE t

\* Secret.Normalize
NormalizeSecret(s) ==
    [s EXCEPT !.Default = NormalizeTarget(s.Default),
              !.BranchOverrides =
                  [j \in 1..Len(s.BranchOverrides) |->
                      [s.BranchOverrides[j] EXCEPT
                          !.Vault = NormalizeTarget(s.BranchOverrides[j].Vault)]]]

\* File.Normalize
Normalize(f) == [i \in 1..Len(f) |-> NormalizeSecret(f[i])]

targetDefined(t) ==
    TrimSpace(t.AccountID) # EmptyStr \/ TrimSpace(t.Namespace) # EmptyStr

targetsEqualUntrimmed(a, b) ==
    a.AccountID = b.AccountID /\ a.Namespace = b.Namespace

targetsEqual(a, b) ==
    /\ TrimSpace(a.AccountID) = TrimSpace(b.AccountID)
    /\ TrimSpace(a.Namespace) = TrimSpace(b.Namespace)

\* *bool with nil meaning true
Enabled(ve) == IF ve # "nil" THEN ve = "true" ELSE TRUE

---------------------------------------------------------------------------
(* Issues.  An issue string is modelled by the parts fmt.Sprintf puts in   *)
(* it: its kind (the fixed text), how it names the secret and the override *)
(* (%q of a name, or %d of an index), and the field problems of            *)
(* validateTarget.  si and oj are not part of the text: they record the    *)
(* loop positions (0-based, as in the code) at which the issue was         *)
(* appended.                                                               *)

NoRef == [by |-> "none", index |-> -1, name |-> EmptyStr]
ByIndex(i) == [by |-> "index", index |-> i, name |-> EmptyStr]
ByName(n) == [by |-> "name", index |-> -1, name |-> n]

Issue(kind, sref, oref, fields, si, oj) ==
    [kind |-> kind, secret |-> sref, override |-> oref, fields |-> fields,
     si |-> si, oj |-> oj]

\* validateTarget: <<>> for nil, else one issue
validateTarget(t, kind, sref, oref, si, oj) ==
    IF TrimSpace(t.AccountID) = EmptyStr /\ TrimSpace(t.Namespace) = EmptyStr
    THEN <<Issue(kind, sref, oref, <<"missing account_id and namespace">>, si, oj)>>
    ELSE LET fs == (IF TrimSpace(t.AccountID) = EmptyStr
                    THEN <<"account_id is required">> ELSE <<>>)
                   \o (IF TrimSpace(t.Namespace) = EmptyStr
                       THEN <<"namespace is required">> ELSE <<>>)
         IN  IF Len(fs) > 0 THEN <<Issue(kind, sref, oref, fs, si, oj)>> ELSE <<>>

---------------------------------------------------------------------------
(* File.Validate *)

\* seenNames[s.Name]++ on a map[string]int, a function from the keys present
CountUp(seenNames, n) ==
    IF n \in DOMAIN seenNames
    THEN [seenNames EXCEPT ![n] = @ + 1]
    ELSE (n :> 1) @@ seenNames

\* the name check of one secret: the issues it appends
secretNameIssuesNoDuplicates(s, si, seenNames) ==
    IF TrimSpace(s.Name) = EmptyStr
    THEN <<Issue("secret is missing a name", ByIndex(si), NoRef, <<>>, si, -1)>>
    ELSE <<>>

secretNameIssues(s, si, seenNames) ==
    IF TrimSpace(s.Name) = EmptyStr
    THEN <<Issue("secret is missing a name", ByIndex(si), NoRef, <<>>, si, -1)>>
    ELSE IF CountUp(seenNames, s.Name)[s.Name] > 1
         THEN <<Issue("duplicate secret name", ByName(s.Name), NoRef, <<>>, si, -1)>>
         ELSE <<>>

\* the map after the name check of one secret
secretNamesSeen(s, seenNames) ==
    IF TrimSpace(s.Name) = EmptyStr THEN seenNames ELSE CountUp(seenNames, s.Name)

\* the default-target checks of one secret
secretDefaultIssues(s, si) ==
    LET hasDefault == targetDefined(s.Default)
    IN  (IF hasDefault
         THEN validateTarget(s.Default, "default", ByName(s.Name), NoRef, si, -1)
         ELSE <<>>)
        \o (IF ~hasDefault /\ Len(s.BranchOverrides) = 0
            THEN <<Issue("must define a default target or at least one branch override",
                         ByName(s.Name), NoRef, <<>>, si, -1)>>
            ELSE <<>>)

\* the name check of one override
overrideNameIssues(s, si, o, oj, overrideNames) ==
    IF TrimSpace(o.Name) = EmptyStr
    THEN <<Issue("override missing name", ByName(s.Name), ByIndex(oj), <<>>, si, oj)>>
    ELSE IF o.Name \in overrideNames
         THEN <<Issue("duplicate override for branch", ByName(s.Name), ByName(o.Name),
                      <<>>, si, oj)>>
         ELSE <<>>

\* the enabled/target checks of one override, with their two "continue"s
overrideTargetIssuesNoDisabledCheck(s, si, o, oj) ==
    IF ~Enabled(o.VaultEnabled) THEN <<>>
    ELSE IF ~targetDefined(o.Vault)
    THEN <<Issue("must define a vault target when vault is enabled",
                 ByName(s.Name), ByName(o.Name), <<>>, si, oj)>>
    ELSE validateTarget(o.Vault, "override", ByName(s.Name), ByName(o.Name), si, oj)
         \o (IF targetDefined(s.Default) /\ targetsEqual(o.Vault, s.Default)
             THEN <<Issue("must not match the default vault target",
                          ByName(s.Name), ByName(o.Name), <<>>, si, oj)>>
             ELSE <<>>)

overrideTargetIssues(s, si, o, oj) ==
    IF ~Enabled(o.VaultEnabled)
    THEN IF targetDefined(o.Vault)
         THEN <<Issue("disables vault but defines a vault target",
                      ByName(s.Name), ByName(o.Name), <<>>, si, oj)>>
         ELSE <<>>
    ELSE IF ~targetDefined(o.Vault)
    THEN <<Issue("must define a vault target when vault is enabled",
                 ByName(s.Name), ByName(o.Name), <<>>, si, oj)>>
    ELSE validateTarget(o.Vault, "override", ByName(s.Name), ByName(o.Name), si, oj)
         \o (IF targetDefined(s.Default) /\ targetsEqual(o.Vault, s.Default)
             THEN <<Issue("must not match the default vault target",
                          ByName(s.Name), ByName(o.Name), <<>>, si, oj)>>
             ELSE <<>>)

\* the loop over s.BranchOverrides, from 0-based position oj on
RECURSIVE validateOverrides(_, _, _, _)
validateOverrides(s, si, oj, overrideNames) ==
    IF oj >= Len(s.BranchOverrides) THEN <<>>
    ELSE LET o == s.BranchOverrides[oj + 1]
         IN  overrideNameIssues(s, si, o, oj, overrideNames)
             \o overrideTargetIssues(s, si, o, oj)
             \o validateOverrides(s, si, oj + 1,
                    IF TrimSpace(o.Name) = EmptyStr THEN overrideNames
                    ELSE overrideNames \cup {o.Name})

\* the loop over f.VaultSecrets, from 0-based position si on
RECURSIVE validateSecretsFirstOnly(_, _, _)
validateSecretsFirstOnly(f, si, seenNames) ==
    IF si >= Len(f) THEN <<>>
    ELSE LET s == f[si + 1]
             here == secretNameIssues(s, si, seenNames)
                     \o secretDefaultIssues(s, si)
                     \o validateOverrides(s, si, 0, {})
         IN  IF here # <<>> THEN here
             ELSE validateSecretsFirstOnly(f, si + 1, secretNamesSeen(s, seenNames))

RECURSIVE validateSecrets(_, _, _)
validateSecrets(f, si, seenNames) ==
    IF si >= Len(f) THEN <<>>
    ELSE LET s == f[si + 1]
         IN  secretNameIssues(s, si, seenNames)
             \o secretDefaultIssues(s, si)
             \o validateOverrides(s, si, 0, {})
             \o validateSecrets(f, si + 1, secretNamesSeen(s, seenNames))

\* File.Validate: the issue list; <<>> is the nil error
Validate(f) ==
    IF Len(f) = 0
    THEN <<Issue("no vault_secrets entries defined", NoRef, NoRef, <<>>, -1, -1)>>
    ELSE validateSecrets(f, 0, <<>>)

---------------------------------------------------------------------------
(* validate.TargetForBranch *)

branchCandidatesNoOrigin(branch) ==
    LET b == TrimSpace(branch)
    IN  IF b = EmptyStr THEN <<>>
        ELSE <<b>>
             \o (IF HasPrefix(b, RefsHeads) THEN <<TrimPrefix(b, RefsHeads)>> ELSE <<>>)

branchCandidates(branch) ==
    LET b == TrimSpace(branch)
    IN  IF b = EmptyStr THEN <<>>
        ELSE <<b>>
             \o (IF HasPrefix(b, RefsHeads) THEN <<TrimPrefix(b, RefsHeads)>> ELSE <<>>)
             \o (IF HasPrefix(b, Origin) THEN <<TrimPrefix(b, Origin)>> ELSE <<>>)

\* the inner loop: the position (1-based) of the first override named candidate, or 0
RECURSIVE scanOverrides(_, _, _)
scanOverrides(overrides, j, candidate) ==
    IF j > Len(overrides) THEN 0
    ELSE IF overrides[j].Name # candidate THEN scanOverrides(overrides, j + 1, candidate)
    ELSE j

\* the outer loop: the override the first matching candidate selects, or 0
RECURSIVE scanCandidates(_, _, _)
scanCandidates(overrides, candidates, c) ==
    IF c > Len(candidates) THEN 0
    ELSE LET j == scanOverrides(overrides, 1, candidates[c])
         IN  IF j # 0 THEN j ELSE scanCandidates(overrides, candidates, c + 1)

\* the loops nested the other way round: first override named by any candidate
RECURSIVE scanDeclared(_, _, _)
scanDeclared(overrides, candidates, j) ==
    IF j > Len(overrides) THEN 0
    ELSE IF \E c \in 1..Len(candidates) : candidates[c] = overrides[j].Name THEN j
    ELSE scanDeclared(overrides, candidates, j + 1)

matchedOverrideDeclaredFirst(secret, branch) ==
    scanDeclared(secret.BranchOverrides, branchCandidates(branch), 1)

\* the override whose body the two loops reach (1-based), or 0 when they fall through
matchedOverride(secret, branch) ==
    scanCandidates(secret.BranchOverrides, branchCandidates(branch), 1)

\* the two results of TargetForBranch; match is not returned: it records which
\* override's body the loops reached (1-based), 0 when they fell through
Resolution(t, enabled, m) == [target |-> t, enabled |-> enabled, match |-> m]

\* the body of the loops, at the matching override
overrideResolution(o, m) ==
    IF ~Enabled(o.VaultEnabled) THEN Resolution(EmptyTarget, FALSE, m)
    ELSE IF o.Vault.AccountID = EmptyStr /\ o.Vault.Namespace = EmptyStr
         THEN Resolution(EmptyTarget, FALSE, m)
         ELSE Resolution(o.Vault, TRUE, m)

\* the code after the loops
defaultResolution(secret) ==
    IF secret.Default.AccountID = EmptyStr /\ secret.Default.Namespace = EmptyStr
    THEN Resolution(EmptyTarget, FALSE, 0)
    ELSE Resolution(secret.Default, TRUE, 0)

TargetForBranchDisabledUsesDefault(secret, branch) ==
    LET m == matchedOverride(secret, branch)
    IN  IF m # 0 /\ Enabled(secret.BranchOverrides[m].VaultEnabled)
        THEN overrideResolution(secret.BranchOverrides[m], m)
        ELSE defaultResolution(secret)

TargetForBranch(secret, branch) ==
    LET m == matchedOverride(secret, branch)
    IN  IF m # 0
        THEN overrideResolution(secret.BranchOverrides[m], m)
        ELSE defaultResolution(secret)

---------------------------------------------------------------------------
(* CLI.Run *)

\* resolveBranchName; env is the first branch environment variable that is set
resolveBranchName(flagValue, env) ==
    IF TrimSpace(flagValue) # EmptyStr THEN flagValue
    ELSE IF TrimSpace(env) # EmptyStr THEN TrimSpace(env)
    ELSE EmptyStr

Branch == resolveBranchName(cliBranch, envBranch)

NoError == [kind |-> "none", name |-> EmptyStr]
Error(kind, name) == [kind |-> kind, name |-> name]

NotWritten == [written |-> FALSE, vault |-> <<>>]
Written(list) == [written |-> TRUE, vault |-> list]

Passwords == { <<"p","1">>, <<"p","2">> }

\* one fetchPassword call: the secret it was made for, the target queried and the
\* password returned, EmptyStr when it returned an error
Fetch(name, target, password) == [name |-> name, target |-> target, password |-> password]

\* fmt.Sprintf("%s=%s", secret.Name, password)
Entry(name, password) == name \o <<"=">> \o password

appendResultInFront(list, name, password) == <<Entry(name, password)>> \o list

\* results = append(results, ...)
appendResult(list, name, password) == Append(list, Entry(name, password))

\* config.Load, reading and parsing done: Normalize, then Validate
Load ==
    /\ pc = "load"
    /\ cfg' = Normalize(cfg)
    /\ issues' = Validate(cfg')
    /\ IF issues' # <<>>
       THEN /\ pc' = "error"
            /\ err' = Error("failed to load config: configuration validation failed",
                            EmptyStr)
       ELSE /\ pc' = "loaded"
            /\ err' = err
    /\ UNCHANGED <<cliBranch, envBranch, validateOnly, idx, resolved, fetched,
                   results, output, logged>>

\* config.Load, os.ReadFile or yaml.Unmarshal failing
LoadFails ==
    /\ pc = "load"
    /\ \E k \in {"failed to load config: read config", "failed to load config: parse config"} :
          err' = Error(k, EmptyStr)
    /\ pc' = "error"
    /\ UNCHANGED <<cfg, cliBranch, envBranch, validateOnly, issues, idx, resolved,
                   fetched, results, output, logged>>

\* the branch "if cli.Validate"
ValidateOnly ==
    /\ pc = "loaded"
    /\ validateOnly
    /\ resolved' = [k \in 1..Len(cfg) |-> TargetForBranch(cfg[k], Branch)]
    /\ logged' = [k \in 1..Len(SelectSeq(cfg, LAMBDA s : ~TargetForBranch(s, Branch).enabled))
                    |-> SelectSeq(cfg, LAMBDA s : ~TargetForBranch(s, Branch).enabled)[k].Name]
    /\ pc' = "done"
    /\ UNCHANGED <<cfg, cliBranch, envBranch, validateOnly, issues, idx, fetched,
                   results, output, err>>

\* the validation-only branch falling through to the fetch run
PrepareAlsoWhenValidating ==
    /\ pc = "loaded"
    /\ pc' = "fetch"
    /\ idx' = 1
    /\ results' = <<>>
    /\ UNCHANGED <<cfg, cliBranch, envBranch, validateOnly, issues, resolved, fetched,
                   output, err, logged>>

\* the address, token and mount checks passing
Prepare ==
    /\ pc = "loaded"
    /\ ~validateOnly
    /\ pc' = "fetch"
    /\ idx' = 1
    /\ results' = <<>>
    /\ UNCHANGED <<cfg, cliBranch, envBranch, validateOnly, issues, resolved, fetched,
                   output, err, logged>>

\* one of the address, token and mount checks failing
PrepareFails ==
    /\ pc = "loaded"
    /\ ~validateOnly
    /\ \E k \in {"VAULT_ADDR environment variable or --vault-addr flag must be provided",
                 "VAULT_TOKEN environment variable must be provided",
                 "mount path cannot be empty"} :
          err' = Error(k, EmptyStr)
    /\ pc' = "error"
    /\ UNCHANGED <<cfg, cliBranch, envBranch, validateOnly, issues, idx, resolved,
                   fetched, results, output, logged>>

\* one pass of the fetch loop that takes "continue"
FetchSkip ==
    /\ pc = "fetch"
    /\ idx <= Len(cfg)
    /\ LET r == TargetForBranch(cfg[idx], Branch)
       IN  /\ ~r.enabled
           /\ resolved' = Append(resolved, r)
           /\ logged' = Append(logged, cfg[idx].Name)
    /\ idx' = idx + 1
    /\ UNCHANGED <<cfg, cliBranch, envBranch, validateOnly, pc, issues, fetched,
                   results, output, err>>

\* one pass of the fetch loop whose fetchPassword succeeds
FetchOK ==
    /\ pc = "fetch"
    /\ idx <= Len(cfg)
    /\ LET r == TargetForBranch(cfg[idx], Branch)
       IN  /\ r.enabled
           /\ resolved' = Append(resolved, r)
           /\ \E password \in Passwords :
                 /\ fetched' = Append(fetched, Fetch(cfg[idx].Name, r.target, password))
                 /\ results' = appendResult(results, cfg[idx].Name, password)
    /\ idx' = idx + 1
    /\ UNCHANGED <<cfg, cliBranch, envBranch, validateOnly, pc, issues, output, err,
                   logged>>

afterFetchErrorContinues(i, name) ==
    /\ pc' = pc
    /\ idx' = i + 1
    /\ err' = err

\* "return fmt.Errorf(...)" of the fetch loop
afterFetchError(i, name) ==
    /\ pc' = "error"
    /\ idx' = i
    /\ err' = Error("fetch secret", name)

\* one pass of the fetch loop whose fetchPassword fails
FetchFails ==
    /\ pc = "fetch"
    /\ idx <= Len(cfg)
    /\ LET r == TargetForBranch(cfg[idx], Branch)
       IN  /\ r.enabled
           /\ resolved' = Append(resolved, r)
           /\ fetched' = Append(fetched, Fetch(cfg[idx].Name, r.target, EmptyStr))
    /\ afterFetchError(idx, cfg[idx].Name)
    /\ UNCHANGED <<cfg, cliBranch, envBranch, validateOnly, issues, results, output,
                   logged>>

\* writeOutput succeeding, after the loop
WriteOutput ==
    /\ pc = "fetch"
    /\ idx > Len(cfg)
    /\ output' = Written(results)
    /\ pc' = "done"
    /\ UNCHANGED <<cfg, cliBranch, envBranch, validateOnly, issues, idx, resolved,
                   fetched, results, err, logged>>

\* writeOutput failing
WriteFails ==
    /\ pc = "fetch"
    /\ idx > Len(cfg)
    /\ err' = Error("write output", EmptyStr)
    /\ pc' = "error"
    /\ UNCHANGED <<cfg, cliBranch, envBranch, validateOnly, issues, idx, resolved,
                   fetched, results, output, logged>>

---------------------------------------------------------------------------
(* Inputs: the documents, branches and flags the runs are started with *)

A1 == <<"A","1">>
N1 == <<"N","1">>
A2 == <<"A","2">>
N2 == <<"N","2">>
NameA == <<"a">>
NameB == <<"b">>
NameX == <<"x">>
NameY == <<"y">>

\* cfg is a document that extends prefix by secrets and overrides numbering k
\* at most, with names, default targets and overrides drawn from the sets given
RECURSIVE DocFrom(_, _, _, _, _)
DocFrom(prefix, names, defaults, overrides, k) ==
    \/ cfg = prefix
    \/ \E n \in 1..k : \E nm \in names : \E d \in defaults :
          \E ov \in [1..(n - 1) -> overrides] :
             DocFrom(Append(prefix, Secret(nm, d, ov)), names, defaults, overrides, k - n)

OverridesOf(names, bodies) == { Override(nm, b[1], b[2]) : nm \in names, b \in bodies }

\* documents that exercise every check of Validate
ValidateDoc ==
    DocFrom(<<>>, {Sp, NameA, NameB},
             {EmptyTarget, Target(EmptyStr, Sp, EmptyStr), Target(A1, EmptyStr, EmptyStr),
              Target(A1, N1, EmptyStr)},
             OverridesOf({EmptyStr, NameX, NameY},
                         { <<EmptyTarget, "nil">>,
                           <<EmptyTarget, "false">>,
                           <<Target(Sp, EmptyStr, EmptyStr), "false">>,
                           <<Target(EmptyStr, N2, EmptyStr), "nil">>,
                           <<Target(A1, N1, EmptyStr), "nil">>,
                           <<Target(A1 \o Sp, EmptyStr, N1), "true">>,
                           <<Target(A2, EmptyStr, N2), "nil">>,
                           <<Target(A2, N2, EmptyStr), "false">> }),
             MaxDocSize)

InitRun(flags, envs, modes) ==
    /\ cliBranch \in flags
    /\ envBranch \in envs
    /\ validateOnly \in modes
    /\ pc = "load"
    /\ issues = <<>>
    /\ idx = 0
    /\ resolved = <<>>
    /\ fetched = <<>>
    /\ results = <<>>
    /\ output = NotWritten
    /\ err = NoError
    /\ logged = <<>>

\* Load applied to every document of ValidateDoc
InitValidate == ValidateDoc /\ InitRun({EmptyStr}, {EmptyStr}, {TRUE})

NextValidate == Load

SpecValidate == InitValidate /\ [][NextValidate]_vars

\* documents and branches that exercise every path of TargetForBranch
ResolveDoc ==
    DocFrom(<<>>, {NameA, NameB},
            {EmptyTarget, Target(Sp, EmptyStr, EmptyStr), Target(A1, N1, EmptyStr)},
            OverridesOf({NameX, RefsHeads \o NameX, Origin \o NameX, NameY},
                        { <<EmptyTarget, "false">>,
                          <<Target(Sp, EmptyStr, EmptyStr), "false">>,
                          <<Target(A2, EmptyStr, N2), "nil">>,
                          <<Target(A2, N1, EmptyStr), "true">> }),
            MaxDocSize)

ResolveBranches ==
    { EmptyStr, Sp, NameX, Sp \o NameX \o Sp, RefsHeads \o NameX, Origin \o NameX,
      Origin \o RefsHeads \o NameX, RefsHeads \o Origin \o NameX, NameY \o Sp,
      <<"z">>, RefsHeads }

\* validation-only runs: TargetForBranch applied to every secret of every
\* accepted document of ResolveDoc, for every branch of ResolveBranches
InitResolve == ResolveDoc /\ InitRun(ResolveBranches, {EmptyStr}, {TRUE})

NextResolve == Load \/ ValidateOnly

SpecResolve == InitResolve /\ [][NextResolve]_vars

\* fetch and validation-only runs over small documents
RunDoc ==
    DocFrom(<<>>, {NameA, NameB, <<"c">>},
            {EmptyTarget, Target(Sp, EmptyStr, EmptyStr), Target(A1, N1, EmptyStr)},
            OverridesOf({NameX}, { <<EmptyTarget, "false">>,
                                   <<Target(A2, EmptyStr, N2), "nil">> }),
            MaxDocSize)

Init ==
    RunDoc /\ InitRun({EmptyStr, NameX, Origin \o NameX}, {EmptyStr, Sp \o NameX \o Sp},
                      BOOLEAN)

Next ==
    \/ Load
    \/ LoadFails
    \/ ValidateOnly
    \/ Prepare
    \/ PrepareFails
    \/ FetchSkip
    \/ FetchOK
    \/ FetchFails
    \/ WriteOutput
    \/ WriteFails

Spec == Init /\ [][Next]_vars

---------------------------------------------------------------------------
(* The vocabulary of the claims *)

\* a Target is defined: account_id or namespace is non-empty after trimming
Defined(t) == TrimSpace(t.AccountID) # EmptyStr \/ TrimSpace(t.Namespace) # EmptyStr

\* a Target is valid: both are
Valid(t) == TrimSpace(t.AccountID) # EmptyStr /\ TrimSpace(t.Namespace) # EmptyStr

SameTrimmed(a, b) ==
    /\ TrimSpace(a.AccountID) = TrimSpace(b.AccountID)
    /\ TrimSpace(a.Namespace) = TrimSpace(b.Namespace)

Blank(name) == TrimSpace(name) = EmptyStr

\* Validate has run on cfg
Validated ==
    /\ pc # "load"
    /\ err.kind \notin {"failed to load config: read config",
                        "failed to load config: parse config"}

\* the validator accepted cfg
Accepted == Validated /\ issues = <<>>

SecretIdx == 0..(Len(cfg) - 1)
OverrideIdx(si) == 0..(Len(cfg[si + 1].BranchOverrides) - 1)
SecretAt(si) == cfg[si + 1]
OverrideAt(si, oj) == cfg[si + 1].BranchOverrides[oj + 1]

\* The violations of checks 1-7 in cfg, each as <<issue kind, secret, override>>
\* (0-based positions, -1 for none).
Violations ==
    (IF Len(cfg) = 0 THEN {<<"no vault_secrets entries defined", -1, -1>>} ELSE {})
    \cup { <<"secret is missing a name", si, -1>> :
              si \in { i \in SecretIdx : Blank(SecretAt(i).Name) } }
    \cup { <<"duplicate secret name", si, -1>> :
              si \in { i \in SecretIdx :
                         /\ ~Blank(SecretAt(i).Name)
                         /\ \E h \in SecretIdx : h < i /\ SecretAt(h).Name = SecretAt(i).Name } }
    \cup { <<"default", si, -1>> :
              si \in { i \in SecretIdx :
                         Defined(SecretAt(i).Default) /\ ~Valid(SecretAt(i).Default) } }
    \cup { <<"must define a default target or at least one branch override", si, -1>> :
              si \in { i \in SecretIdx :
                         ~Defined(SecretAt(i).Default) /\ SecretAt(i).BranchOverrides = <<>> } }
    \cup UNION { { <<"duplicate override for branch", si, oj>> :
                      oj \in { j \in OverrideIdx(si) :
                                 /\ ~Blank(OverrideAt(si, j).Name)
                                 /\ \E h \in OverrideIdx(si) :
                                       h < j /\ OverrideAt(si, h).Name = OverrideAt(si, j).Name } }
                 : si \in SecretIdx }
    \cup UNION { { <<"disables vault but defines a vault target", si, oj>> :
                      oj \in { j \in OverrideIdx(si) :
                                 /\ OverrideAt(si, j).VaultEnabled = "false"
                                 /\ Defined(OverrideAt(si, j).Vault) } }
                 : si \in SecretIdx }
    \cup UNION { { <<"must define a vault target when vault is enabled", si, oj>> :
                      oj \in { j \in OverrideIdx(si) :
                                 /\ OverrideAt(si, j).VaultEnabled # "false"
                                 /\ ~Defined(OverrideAt(si, j).Vault) } }
                 : si \in SecretIdx }
    \cup UNION { { <<"override", si, oj>> :
                      oj \in { j \in OverrideIdx(si) :
                                 /\ OverrideAt(si, j).VaultEnabled # "false"
                                 /\ Defined(OverrideAt(si, j).Vault)
                                 /\ ~Valid(OverrideAt(si, j).Vault) } }
                 : si \in SecretIdx }
    \cup UNION { { <<"must not match the default vault target", si, oj>> :
                      oj \in { j \in OverrideIdx(si) :
                                 /\ OverrideAt(si, j).VaultEnabled # "false"
                                 /\ Defined(OverrideAt(si, j).Vault)
                                 /\ Defined(SecretAt(si).Default)
                                 /\ SameTrimmed(OverrideAt(si, j).Vault, SecretAt(si).Default) } }
                 : si \in SecretIdx }

\* The overrides whose name is empty after trimming: not one of checks 1-7
BlankOverrideNames ==
    UNION { { <<"override missing name", si, oj>> :
                 oj \in { j \in OverrideIdx(si) : Blank(OverrideAt(si, j).Name) } }
            : si \in SecretIdx }

Reported == { <<issues[k].kind, issues[k].si, issues[k].oj>> : k \in 1..Len(issues) }

\* the issues come in document order
InDocumentOrder ==
    \A a, b \in 1..Len(issues) :
        a < b => \/ issues[a].si < issues[b].si
                 \/ issues[a].si = issues[b].si /\ issues[a].oj <= issues[b].oj

---------------------------------------------------------------------------
(* Claims about File.Validate *)

\* C2, as stated: the validator accepts exactly when no check 1-7 is violated,
\* and otherwise its ordered issue list holds an issue for every violated check
\* of every secret and override.
C2_AsStated ==
    Validated =>
        /\ (issues = <<>>) <=> (Violations = {})
        /\ Violations \subseteq Reported
        /\ InDocumentOrder

\* C2, amended: the validator accepts exactly when no check 1-7 is violated and
\* no override has a name that is empty after trimming; otherwise its ordered
\* issue list holds an issue for every violated check (and every such override)
\* of every secret and override, one for each second and later duplicate.
C2_AllIssuesReported ==
    Validated =>
        /\ (issues = <<>>) <=> (Violations = {} /\ BlankOverrideNames = {})
        /\ (Violations \cup BlankOverrideNames) \subseteq Reported
        /\ InDocumentOrder

\* a rejected document with violations in two secrets, the later a duplicate name
C2_Witness ==
    /\ Validated
    /\ \E v, w \in Violations :
          /\ v[2] = 0
          /\ w[2] = 1
          /\ w[1] = "duplicate secret name"
          /\ v[1] # "secret is missing a name"

\* C3: in an accepted document every override with vault_enabled false has an
\* undefined target, and every other override has a valid target that differs
\* (trimmed) from its secret's default.
C3_OverrideInvariant ==
    Accepted =>
        \A si \in SecretIdx : \A oj \in OverrideIdx(si) :
            LET o == OverrideAt(si, oj)
            IN  IF o.VaultEnabled = "false"
                THEN ~Defined(o.Vault)
                ELSE Valid(o.Vault) /\ ~SameTrimmed(o.Vault, SecretAt(si).Default)

\* an accepted secret with a defined default, a disabled and an enabled override
C3_Witness ==
    /\ Accepted
    /\ \E si \in SecretIdx :
          /\ Defined(SecretAt(si).Default)
          /\ \E oj, ok \in OverrideIdx(si) :
                /\ OverrideAt(si, oj).VaultEnabled = "false"
                /\ OverrideAt(si, ok).VaultEnabled # "false"

\* C4: an accepted document has a secret; its secret names are non-blank and
\* pairwise different; every default is undefined or valid; every secret has a
\* defined default or an override; override names are unique within a secret.
C4_DocumentInvariant ==
    Accepted =>
        /\ Len(cfg) >= 1
        /\ \A si \in SecretIdx :
              /\ ~Blank(SecretAt(si).Name)
              /\ \A sj \in SecretIdx : sj # si => SecretAt(sj).Name # SecretAt(si).Name
              /\ ~Defined(SecretAt(si).Default) \/ Valid(SecretAt(si).Default)
              /\ Defined(SecretAt(si).Default) \/ Len(SecretAt(si).BranchOverrides) >= 1
              /\ \A oj, ok \in OverrideIdx(si) :
                    oj # ok => OverrideAt(si, oj).Name # OverrideAt(si, ok).Name

\* an accepted document of two secrets, one without a default
C4_Witness ==
    /\ Accepted
    /\ Len(cfg) = 2
    /\ \E si \in SecretIdx :
          ~Defined(SecretAt(si).Default) /\ Len(SecretAt(si).BranchOverrides) = 1

\* C8: every issue names its secret by name, or by index when the name is blank,
\* and every issue of an override names the override by name, or by index when
\* that name is blank.
C8_IssuesIdentifyOffender ==
    Validated =>
        \A k \in 1..Len(issues) :
            /\ issues[k].si >= 0 =>
                  issues[k].secret =
                      IF Blank(SecretAt(issues[k].si).Name)
                      THEN ByIndex(issues[k].si)
                      ELSE ByName(SecretAt(issues[k].si).Name)
            /\ issues[k].oj >= 0 =>
                  issues[k].override =
                      IF Blank(OverrideAt(issues[k].si, issues[k].oj).Name)
                      THEN ByIndex(issues[k].oj)
                      ELSE ByName(OverrideAt(issues[k].si, issues[k].oj).Name)

---------------------------------------------------------------------------
(* Claims about validate.TargetForBranch *)

Suffixes(b) == { SubSeq(b, n, Len(b)) : n \in 1..(Len(b) + 1) }

\* what is left of b once the leading p is removed: a set of one string, or none
Stripped(b, p) == { r \in Suffixes(b) : p \o r = b }

AsList(S) == IF S = {} THEN <<>> ELSE << CHOOSE r \in S : TRUE >>

\* the candidates of a branch, as the claims describe them
Candidates(branch) ==
    LET b == TrimSpace(branch)
    IN  IF b = EmptyStr THEN <<>>
        ELSE <<b>> \o AsList(Stripped(b, RefsHeads)) \o AsList(Stripped(b, Origin))

\* the candidate positions that name some override of the secret
MatchingCandidates(secret, branch) ==
    { c \in 1..Len(Candidates(branch)) :
        \E j \in 1..Len(secret.BranchOverrides) :
            secret.BranchOverrides[j].Name = Candidates(branch)[c] }

Min(S) == CHOOSE x \in S : \A y \in S : x <= y

\* the override the claims select: the first declared among those named by the
\* earliest candidate that names any
Selected(secret, branch) ==
    LET c == Min(MatchingCandidates(secret, branch))
    IN  Min({ j \in 1..Len(secret.BranchOverrides) :
                secret.BranchOverrides[j].Name = Candidates(branch)[c] })

Outcome(r) == <<r.target, r.enabled>>

\* C1: when no override of a secret matches a candidate of the branch, the
\* result is (empty Target, false) if the default is not defined (both fields
\* empty after trimming), and (default, true) otherwise.
C1_DefaultFallback ==
    Accepted =>
        \A k \in 1..Len(resolved) :
            MatchingCandidates(cfg[k], Branch) = {} =>
                Outcome(resolved[k]) =
                    IF ~Defined(cfg[k].Default) THEN <<EmptyTarget, FALSE>>
                    ELSE <<cfg[k].Default, TRUE>>

\* C5: when an override matches, the result is (empty Target, false) if the
\* override is disabled or its target is not defined, whatever the default;
\* otherwise it is (the override's target, true).
C5_MatchedOverrideDecides ==
    Accepted =>
        \A k \in 1..Len(resolved) :
            MatchingCandidates(cfg[k], Branch) # {} =>
                LET o == cfg[k].BranchOverrides[Selected(cfg[k], Branch)]
                IN  Outcome(resolved[k]) =
                        IF o.VaultEnabled = "false" \/ ~Defined(o.Vault)
                        THEN <<EmptyTarget, FALSE>>
                        ELSE <<o.Vault, TRUE>>

\* a disabled override matched, on a secret with a valid default: no fetch
C5_Witness ==
    /\ Accepted
    /\ \E k \in 1..Len(resolved) :
          /\ MatchingCandidates(cfg[k], Branch) # {}
          /\ cfg[k].BranchOverrides[Selected(cfg[k], Branch)].VaultEnabled = "false"
          /\ Valid(cfg[k].Default)
          /\ Outcome(resolved[k]) = <<EmptyTarget, FALSE>>

\* C6: when two overrides match two candidates of the branch, the one matching
\* the earlier candidate is selected, wherever the two are declared; declared
\* order decides only among overrides matching the same candidate.
C6_EarlierCandidateWins ==
    Accepted =>
        \A k \in 1..Len(resolved) :
            Cardinality(MatchingCandidates(cfg[k], Branch)) >= 2 =>
                resolved[k].match = Selected(cfg[k], Branch)

\* the raw branch names the override declared second, its stripped form the first
C6_Witness ==
    /\ Accepted
    /\ \E k \in 1..Len(resolved) :
          /\ Cardinality(MatchingCandidates(cfg[k], Branch)) >= 2
          /\ resolved[k].match = 2
          /\ cfg[k].BranchOverrides[2].Name = TrimSpace(Branch)
          /\ RefsHeads \o cfg[k].BranchOverrides[1].Name = TrimSpace(Branch)

\* C7: the candidate list is empty for a branch that is blank, and no override
\* matches then; otherwise it is the trimmed branch, then the branch without a
\* leading refs/heads/, then the branch without a leading origin/.  So a branch
\* refs/heads/X or origin/X selects the override named X when none is named by
\* the full string.
C7_CandidateList ==
    LET b == TrimSpace(Branch)
    IN  /\ branchCandidates(Branch) = Candidates(Branch)
        /\ Blank(Branch) => branchCandidates(Branch) = <<>>
        /\ Accepted =>
              \A k \in 1..Len(resolved) :
                  /\ Blank(Branch) => resolved[k].match = 0
                  /\ \A x \in Stripped(b, RefsHeads) \cup Stripped(b, Origin) :
                        LET ovs == cfg[k].BranchOverrides
                        IN  /\ \A j \in 1..Len(ovs) : ovs[j].Name # b
                            /\ \E j \in 1..Len(ovs) : ovs[j].Name = x
                            => /\ resolved[k].match # 0
                               /\ ovs[resolved[k].match].Name = x

\* branch origin/x resolved to the target of the override named x
C7_Witness ==
    /\ Accepted
    /\ Branch = Origin \o NameX
    /\ \E k \in 1..Len(resolved) :
          /\ resolved[k].match # 0
          /\ cfg[k].BranchOverrides[resolved[k].match].Name = NameX
          /\ Outcome(resolved[k]) = <<cfg[k].BranchOverrides[resolved[k].match].Vault, TRUE>>

---------------------------------------------------------------------------
(* Claims about the fetch run of CLI.Run *)

\* the positions in cfg of the secrets TargetForBranch said to fetch, in order
FetchPositions == SelectSeq([k \in 1..Len(resolved) |-> k], LAMBDA k : resolved[k].enabled)

\* C9: the output written by a run whose fetches all succeeded holds exactly one
\* name=value entry for each secret resolved with shouldFetch true, none for the
\* others, in the order the secrets are declared.
C9_OutputMatchesFetched ==
    output.written =>
        /\ Len(resolved) = Len(cfg)
        /\ Len(fetched) = Len(FetchPositions)
        /\ Len(output.vault) = Len(FetchPositions)
        /\ \A m \in 1..Len(FetchPositions) :
              /\ fetched[m].name = cfg[FetchPositions[m]].Name
              /\ fetched[m].password # EmptyStr
              /\ output.vault[m] =
                     cfg[FetchPositions[m]].Name \o <<"=">> \o fetched[m].password

\* an output written by a run that skipped one secret and then fetched the next
C9_Witness ==
    /\ output.written
    /\ Len(output.vault) = 1
    /\ \E k \in 1..Len(resolved) :
          /\ ~resolved[k].enabled
          /\ k + 1 \in 1..Len(resolved)
          /\ resolved[k + 1].enabled

\* C10: once a fetch has failed it is the last fetch made, the run has ended in
\* the fetch error naming that secret, and the output is not written.
C10_FetchFailureAborts ==
    \A m \in 1..Len(fetched) :
        fetched[m].password = EmptyStr =>
            /\ m = Len(fetched)
            /\ pc = "error"
            /\ err = Error("fetch secret", fetched[m].name)
            /\ ~output.written
            /\ results = [n \in 1..(m - 1) |-> fetched[n].name \o <<"=">> \o fetched[n].password]

\* the first fetch succeeded, the second failed, and a later secret was due
C10_Witness ==
    /\ Len(fetched) = 2
    /\ fetched[2].password = EmptyStr
    /\ Len(cfg) = 3
    /\ TargetForBranch(cfg[3], Branch).enabled

---------------------------------------------------------------------------
(* Claims about when the store is contacted *)

\* the names of the secrets, in declared order, that the calls said to skip
SkippedNames ==
    LET pos == SelectSeq([k \in 1..Len(resolved) |-> k], LAMBDA k : ~resolved[k].enabled)
    IN  [m \in 1..Len(pos) |-> cfg[pos[m]].Name]

\* C11: a fetch is made, or the output written, only in a run whose document
\* was accepted and that is not validation-only; a run whose load or validation
\* failed has ended in that error; a validation-only run ends having only
\* reported, for every secret, whether the branch skips the store.
C11_StoreOnlyAfterAcceptance ==
    /\ (fetched # <<>> \/ output.written) => (Accepted /\ ~validateOnly)
    /\ (pc # "load" /\ ~Accepted) =>
          /\ pc = "error"
          /\ err.kind \in {"failed to load config: read config",
                           "failed to load config: parse config",
                           "failed to load config: configuration validation failed"}
          /\ resolved = <<>>
    /\ (Accepted /\ validateOnly) =>
          /\ pc \in {"loaded", "done"}
          /\ results = <<>>
          /\ pc = "done" => /\ Len(resolved) = Len(cfg)
                            /\ logged = SkippedNames
                            /\ err = NoError

\* a finished validation-only run that reported one secret as skipping the
\* store and another as not
C11_Witness ==
    /\ Accepted
    /\ validateOnly
    /\ pc = "done"
    /\ Len(logged) = 1
    /\ Len(cfg) = 2
    /\ fetched = <<>>
    /\ ~output.written

\* C12: in an accepted document, every target TargetForBranch returns with
\* shouldFetch true, and so every target the fetch loop queries the store
\* with, has account_id and namespace non-empty after trimming.
C12_FetchedTargetsValid ==
    Accepted =>
        /\ \A k \in 1..Len(resolved) : resolved[k].enabled => Valid(resolved[k].target)
        /\ \A m \in 1..Len(fetched) : Valid(fetched[m].target)

===========================================================================
